---- MODULE Spec2Model ----
(***************************************************************************)
(* The chat-session state manager of AskQuestionPage                       *)
(* (src/frontend_v2/src/components/ThemeToggle.jsx, lines 56-494).         *)
(*                                                                         *)
(* React state is modelled by one variable per useState cell.  A handler   *)
(* is a closure over the state of the render that created it: an event     *)
(* handler invoked by the user closes over the current state, while the    *)
(* continuation of an await and the callback of a setTimeout keep the      *)
(* values of the render in which the handler was started.  Every in-flight *)
(* handler therefore carries the values it captured (activeChatId, the     *)
(* active chat found in its chats, input, docGenMode).  Each action is one *)
(* synchronous segment of a handler followed by the re-render and the      *)
(* persistence effects of lines 124-129.                                   *)
(*                                                                         *)
(* Text is a sequence of one-character strings.  createdAt (Date.now())    *)
(* and docType are read by no condition of the handlers and are left out   *)
(* of the thread and request records; so are the display-only cells        *)
(* showFeatures, uploadedFileName, recording and the keyboard and menu     *)
(* flags, which no handler of the session store reads.                     *)
(***************************************************************************)
EXTENDS Integers, Sequences, FiniteSets, TLC

\* ---------------------------------------------------------------- bounds
MaxIds == 2       \* uuidv4() is drawn at most MaxIds times (Spec)
MaxStoreIds == 4  \* uuidv4() is drawn at most MaxStoreIds times (SpecStore)
MaxSends == 2     \* handleSend invocations with non-blank input
MaxUploads == 1   \* handleFileChange invocations with a file
MaxUploadsAlone == 2  \* handleFileChange invocations with a file (SpecUpload)
MaxTitleWords == 5    \* words of a text handed to generateChatTitle (SpecTitle)

\* ------------------------------------------------------------- constants
TitleMaxLen == 30        \* line 231: title.length > 30, substring(0, 30)
ShortWordCount == 3      \* line 227: words.length <= 3
TitleWordCount == 4      \* line 230: words.slice(0, 4)

NoChat == 0              \* activeChatId === null; also getItem('activeChatId') === null

NewChatTitle == <<"N", "e", "w", " ", "C", "h", "a", "t">>
Ellipsis == <<".", ".", ".">>
\* line 204 and line 287: the two fixed error texts (abbreviated)
SendErrorText == <<"E", "s">>
UploadErrorText == <<"E", "u">>
EmptyText == <<>>

\* What the user can type, what the backend can answer, the files offered.
TextHi == <<"h", "i">>
TextFive == <<"a", " ", "b", " ", "c", " ", "d", " ", "e">>
Texts == {TextHi, TextFive}
Responses == {<<"o", "k">>}
FileNames == {<<"c", ".", "p">>}
\* the files offered when uploads are followed on their own
FileTwoDots == <<"a", ".", "b", ".", "p">>
FileNoDot == <<"n">>
DocumentNames == FileNames \cup {FileTwoDots, FileNoDot}

\* ------------------------------------------------------- string helpers
IsSpace(c) == c = " "

RECURSIVE TrimStart(_)
TrimStart(s) ==
  IF s # <<>> /\ IsSpace(Head(s)) THEN TrimStart(Tail(s)) ELSE s

RECURSIVE TrimEnd(_)
TrimEnd(s) ==
  IF s # <<>> /\ IsSpace(s[Len(s)]) THEN TrimEnd(SubSeq(s, 1, Len(s) - 1)) ELSE s

\* String.prototype.trim
Trim(s) == TrimEnd(TrimStart(s))

\* s.split(/\s+/): the pieces between maximal runs of white space
RECURSIVE SplitFrom(_, _, _)
SplitFrom(s, cur, inGap) ==
  IF s = <<>> THEN <<cur>>
  ELSE IF IsSpace(Head(s))
       THEN IF inGap THEN SplitFrom(Tail(s), cur, TRUE)
            ELSE <<cur>> \o SplitFrom(Tail(s), <<>>, TRUE)
       ELSE SplitFrom(Tail(s), Append(cur, Head(s)), FALSE)

SplitWs(s) == SplitFrom(s, <<>>, FALSE)

\* words.join(' ')
RECURSIVE JoinSpace(_)
JoinSpace(words) ==
  IF words = <<>> THEN <<>>
  ELSE IF Len(words) = 1 THEN words[1]
       ELSE words[1] \o <<" ">> \o JoinSpace(Tail(words))

Min(a, b) == IF a < b THEN a ELSE b

\* name.replace(/\.[^/.]+$/, ""): drop a final ".ext" (ext non-empty, no "." or "/")
RECURSIVE LastDot(_, _)
LastDot(s, k) ==
  IF k = 0 THEN 0 ELSE IF s[k] = "." THEN k ELSE LastDot(s, k - 1)

StripExtension(name) ==
  LET d == LastDot(name, Len(name))
  IN IF d = 0 \/ d = Len(name) THEN name
     ELSE IF \E k \in (d + 1)..Len(name) : name[k] = "/" THEN name
     ELSE SubSeq(name, 1, d - 1)

\* ------------------------------------------------------------ the state
VARIABLES
  chats,            \* useState chats: sequence of [id, title, messages]
  activeChatId,     \* useState activeChatId (NoChat for null)
  input,            \* useState input
  isLoading,        \* useState isLoading
  uploadStatus,     \* useState uploadStatus
  docGenMode,       \* useState docGenMode
  lsChats,          \* localStorage 'chats'
  lsActive,         \* localStorage 'activeChatId'
  sends,            \* the handleSend invocations, with what each closed over
  uploads,          \* the handleFileChange invocations
  nextId            \* the next value uuidv4() returns

vars == <<chats, activeChatId, input, isLoading, uploadStatus,
          docGenMode, lsChats, lsActive, sends, uploads,
          nextId>>

ChatIds(cs) == {cs[k].id : k \in DOMAIN cs}

\* ------------------------------------------------- the persistent store
\* JSON.stringify / JSON.parse of the chats array.  Threads hold only strings,
\* arrays and plain objects, which JSON carries unchanged; the stored item is
\* kept apart from the array by its wrapper.
JSONstringify(cs) == [present |-> TRUE, json |-> cs]
JSONparse(item) == item.json
NoItem == [present |-> FALSE, json |-> <<>>]

\* lines 60-63: saved ? JSON.parse(saved) : []
InitialChats(item) == IF item.present THEN JSONparse(item) ELSE <<>>

\* lines 64-67: saved || null
InitialActiveChatId(item) == IF item # NoChat THEN item ELSE NoChat

\* lines 124-126: the effect on [chats]
ChatsEffect(old, new, item) == IF new # old THEN JSONstringify(new) ELSE item

\* lines 127-129: the effect on [activeChatId]
ActiveEffect(old, new, item) ==
  IF new # old /\ new # NoChat THEN new ELSE item

Persist ==
  /\ lsChats' = ChatsEffect(chats, chats', lsChats)
  /\ lsActive' = ActiveEffect(activeChatId, activeChatId', lsActive)

\* ------------------------------------------------- the session store
HasChat(cs, id) == \E k \in DOMAIN cs : cs[k].id = id

\* line 131: chats.find(c => c.id === activeChatId), as [found, title]
getActiveChat(cs, id) ==
  IF HasChat(cs, id)
  THEN LET k == CHOOSE j \in DOMAIN cs :
                  cs[j].id = id /\ \A h \in 1..(j - 1) : cs[h].id # id
       IN [found |-> TRUE, title |-> cs[k].title]
  ELSE [found |-> FALSE, title |-> EmptyText]

\* appendMessage creating the thread when chats has none of that id
appendMessageOrCreate(cs, id, role, content) ==
  IF id = NoChat THEN cs
  ELSE IF \E k \in DOMAIN cs : cs[k].id = id
       THEN [k \in DOMAIN cs |->
               IF cs[k].id = id
               THEN [cs[k] EXCEPT !.messages = Append(@, [role |-> role, content |-> content])]
               ELSE cs[k]]
       ELSE <<[id |-> id, title |-> NewChatTitle,
               messages |-> <<[role |-> role, content |-> content]>>]>> \o cs

\* appendMessage putting the new message in front of the earlier ones
appendMessageInFront(cs, id, role, content) ==
  IF id = NoChat THEN cs
  ELSE [k \in DOMAIN cs |->
          IF cs[k].id = id
          THEN [cs[k] EXCEPT !.messages = <<[role |-> role, content |-> content]>> \o @]
          ELSE cs[k]]

\* lines 154-162, with the activeChatId the calling closure holds
appendMessage(cs, id, role, content) ==
  IF id = NoChat THEN cs
  ELSE [k \in DOMAIN cs |->
          IF cs[k].id = id
          THEN [cs[k] EXCEPT !.messages = Append(@, [role |-> role, content |-> content])]
          ELSE cs[k]]

\* lines 212-215
newChat(newId) == [id |-> newId, title |-> NewChatTitle, messages |-> <<>>]

\* the new thread put behind the existing ones
appendChatLast(cs, newId) == Append(cs, newChat(newId))

\* line 216: [newChat, ...prev]
prependChat(cs, newId) == <<newChat(newId)>> \o cs

\* generateChatTitle cutting a join of exactly TitleMaxLen characters too
generateChatTitleCutAtMax(content) ==
  IF content = EmptyText THEN NewChatTitle
  ELSE LET words == SplitWs(Trim(content))
       IN IF Len(words) <= ShortWordCount THEN Trim(content)
          ELSE LET title == JoinSpace(SubSeq(words, 1, Min(TitleWordCount, Len(words))))
               IN IF Len(title) >= TitleMaxLen
                  THEN SubSeq(title, 1, TitleMaxLen) \o Ellipsis
                  ELSE title

\* lines 222-232
generateChatTitle(content) ==
  IF content = EmptyText THEN NewChatTitle
  ELSE LET words == SplitWs(Trim(content))
       IN IF Len(words) <= ShortWordCount THEN Trim(content)
          ELSE LET title == JoinSpace(SubSeq(words, 1, Min(TitleWordCount, Len(words))))
               IN IF Len(title) > TitleMaxLen
                  THEN SubSeq(title, 1, TitleMaxLen) \o Ellipsis
                  ELSE title

\* lines 234-238
updateChatTitle(cs, chatId, newTitle) ==
  [k \in DOMAIN cs |->
     IF cs[k].id = chatId THEN [cs[k] EXCEPT !.title = newTitle] ELSE cs[k]]

\* lines 243 and 245: chats.filter(chat => chat.id !== id)
removeChat(cs, id) == SelectSeq(cs, LAMBDA c : c.id # id)

\* handleDeleteChat taking the last remaining thread instead of the first
activeAfterDeleteLast(cs, active, id) ==
  IF active = id
  THEN LET remaining == removeChat(cs, id)
       IN IF remaining # <<>> THEN remaining[Len(remaining)].id ELSE NoChat
  ELSE active

\* lines 244-248: the active pointer after handleDeleteChat(id)
activeAfterDelete(cs, active, id) ==
  IF active = id
  THEN LET remaining == removeChat(cs, id)
       IN IF remaining # <<>> THEN remaining[1].id ELSE NoChat
  ELSE active

\* ------------------------------------------------------------------ Init
\* The first render over an empty localStorage, its mount effects run.
Init ==
  /\ chats = InitialChats(NoItem)
  /\ activeChatId = InitialActiveChatId(NoChat)
  /\ input = EmptyText
  /\ isLoading = FALSE
  /\ uploadStatus = "idle"
  /\ docGenMode = FALSE
  /\ lsChats = JSONstringify(InitialChats(NoItem))
  /\ lsActive = NoChat
  /\ sends = <<>>
  /\ uploads = <<>>
  /\ nextId = 1

\* --------------------------------------------------------- user events
\* line 463: onChange={e => setInput(e.target.value)}
Type(t) ==
  /\ input' = t
  /\ UNCHANGED <<chats, activeChatId, isLoading, uploadStatus,
                 docGenMode, lsChats, lsActive, sends,
                 uploads, nextId>>

\* line 440: setDocGenMode(v => !v)
ToggleDocGen ==
  /\ docGenMode' = ~docGenMode
  /\ UNCHANGED <<chats, activeChatId, input, isLoading,
                 uploadStatus, lsChats, lsActive, sends,
                 uploads, nextId>>

\* lines 210-220: the state updates of handleNewChat()
handleNewChat ==
  /\ chats' = prependChat(chats, nextId)
  /\ activeChatId' = nextId
  /\ input' = EmptyText
  /\ nextId' = nextId + 1
  /\ Persist

\* line 320: onNewChat={handleNewChat}
NewChat ==
  /\ nextId <= MaxIds
  /\ handleNewChat
  /\ UNCHANGED <<isLoading, uploadStatus, docGenMode, sends,
                 uploads>>

\* line 240; the sidebar (line 321) offers the threads of chats
handleSelectChat(id) ==
  /\ activeChatId' = id
  /\ UNCHANGED chats
  /\ Persist

SelectChat(id) ==
  /\ handleSelectChat(id)
  /\ UNCHANGED <<input, isLoading, uploadStatus, docGenMode,
                 sends, uploads, nextId>>

\* lines 242-249; the sidebar (line 322) offers the threads of chats
handleDeleteChat(id) ==
  /\ chats' = removeChat(chats, id)
  /\ activeChatId' = activeAfterDelete(chats, activeChatId, id)
  /\ Persist

DeleteChat(id) ==
  /\ handleDeleteChat(id)
  /\ UNCHANGED <<input, isLoading, uploadStatus, docGenMode,
                 sends, uploads, nextId>>

\* ------------------------------------------------- the message dispatcher
\* What one handleSend invocation holds.  pc is its position: "retry" (the
\* 100 ms timer of line 172 is pending), "await" (the outbound call of line
\* 186 or 189 is in flight), "tts" (the textToSpeech call of line 201 is in
\* flight), "appended" and "failed" (it returned), "gone" (its page was
\* reloaded).  chatId, activeChat and text are the activeChatId, the
\* getActiveChat() and the input of the render that started it; endpoint is
\* the call line 184 chose; created counts the threads it has created.
NoActiveChat == [found |-> FALSE, title |-> EmptyText]

SendRec(pc, id, active, text, endpoint, created) ==
  [pc |-> pc, chatId |-> id, activeChat |-> active, text |-> text,
   endpoint |-> endpoint, created |-> created]

\* A handler that reads no captured value any more (line 201 onwards, or its
\* page is gone) holds only its position.
EndSend(pc) == SendRec(pc, NoChat, NoActiveChat, EmptyText, "none", 0)

\* the chat endpoint whatever the mode
chooseEndpointChat(docGen) == "ask"

\* line 184: docGenMode picks the endpoint
chooseEndpoint(docGen) == IF docGen THEN "generate-document" ELSE "ask"

\* lines 164-208, the synchronous part of handleSend() in the current render
HandleSend ==
  \/ \* line 166: input.trim() is empty
     /\ Trim(input) = EmptyText
     /\ UNCHANGED vars
  \/ \* lines 168-174: no active chat
     /\ Trim(input) # EmptyText
     /\ activeChatId = NoChat
     /\ Len(sends) < MaxSends
     /\ nextId <= MaxIds
     /\ handleNewChat
     /\ sends' = Append(sends, SendRec("retry", activeChatId,
                                       getActiveChat(chats, activeChatId),
                                       input, "none", 1))
     /\ UNCHANGED <<isLoading, uploadStatus, docGenMode, uploads>>
  \/ \* lines 176-189
     /\ Trim(input) # EmptyText
     /\ activeChatId # NoChat
     /\ Len(sends) < MaxSends
     /\ chats' = appendMessage(chats, activeChatId, "user", input)
     /\ input' = EmptyText
     /\ isLoading' = TRUE
     /\ sends' = Append(sends, SendRec("await", activeChatId,
                                       getActiveChat(chats, activeChatId),
                                       input, chooseEndpoint(docGenMode), 0))
     /\ UNCHANGED <<activeChatId, uploadStatus, docGenMode, uploads, nextId>>
     /\ Persist

\* line 172: the timer runs handleSend of the render that scheduled it, whose
\* activeChatId is null and whose input is the text typed then: lines 166-174
\* run again
RetrySend(i) ==
  /\ sends[i].pc = "retry"
  /\ Trim(sends[i].text) # EmptyText
  /\ sends[i].chatId = NoChat
  /\ nextId <= MaxIds
  /\ handleNewChat
  /\ sends' = [sends EXCEPT ![i].created = @ + 1]
  /\ UNCHANGED <<isLoading, uploadStatus, docGenMode, uploads>>

\* the response put in front of the thread's messages instead of behind them
chatsAfterResponseInFront(cs, s, aiResponse) ==
  appendMessageInFront(cs, s.chatId, "assistant", aiResponse)

\* lines 192-199: the chats after a response, in the closure of the send
chatsAfterResponse(cs, s, aiResponse) ==
  LET appended == appendMessage(cs, s.chatId, "assistant", aiResponse)
  IN IF s.activeChat.found /\ s.activeChat.title = NewChatTitle
     THEN updateChatTitle(appended, s.chatId, generateChatTitle(s.text))
     ELSE appended

\* lines 191-201: the outbound call resolved
SendOk(i, aiResponse) ==
  /\ sends[i].pc = "await"
  /\ chats' = chatsAfterResponse(chats, sends[i], aiResponse)
  /\ sends' = [sends EXCEPT ![i] = EndSend("tts")]
  /\ UNCHANGED <<activeChatId, input, isLoading, uploadStatus, docGenMode,
                 uploads, nextId>>
  /\ Persist

\* the catch block appending to whichever thread is first in the list
chatsAfterSendErrorFirst(cs, s) ==
  IF cs = <<>> THEN cs
  ELSE appendMessage(cs, cs[1].id, "assistant", SendErrorText)

\* lines 202-205: the chats after the outbound call rejected
chatsAfterSendError(cs, s) ==
  appendMessage(cs, s.chatId, "assistant", SendErrorText)

\* line 206
loadingAfterSend == FALSE

\* lines 202-206: the outbound call rejected
SendFail(i) ==
  /\ sends[i].pc = "await"
  /\ chats' = chatsAfterSendError(chats, sends[i])
  /\ isLoading' = loadingAfterSend
  /\ sends' = [sends EXCEPT ![i] = EndSend("failed")]
  /\ UNCHANGED <<activeChatId, input, uploadStatus, docGenMode, uploads,
                 nextId>>
  /\ Persist

\* the rejection of textToSpeech reaching the catch block of line 202
chatsAfterTtsErrorCaught(cs, s) ==
  IF cs = <<>> THEN cs
  ELSE appendMessage(cs, cs[1].id, "assistant", SendErrorText)

\* line 201: try { await textToSpeech(aiResponse); } catch {}: the rejection is
\* caught by an empty block
chatsAfterTtsError(cs, s) == cs

\* lines 201 and 206: textToSpeech resolved (ok) or rejected
TtsSettled(i, ok) ==
  /\ sends[i].pc = "tts"
  /\ chats' = IF ok THEN chats ELSE chatsAfterTtsError(chats, sends[i])
  /\ isLoading' = loadingAfterSend
  /\ sends' = [sends EXCEPT ![i] = EndSend("appended")]
  /\ UNCHANGED <<activeChatId, input, uploadStatus, docGenMode, uploads,
                 nextId>>
  /\ Persist

\* ------------------------------------------------- the upload coordinator
\* pc: "retry" (timer of line 259), "await" (uploadDocument in flight),
\* "timer" (the 5 s timer of line 281 is pending), "done", "gone".
UploadRec(pc, id, file, created) ==
  [pc |-> pc, chatId |-> id, file |-> file, created |-> created]

EndUpload(pc) == UploadRec(pc, NoChat, EmptyText, 0)

\* lines 428-435 and 85-94: the upload button and the Document Analysis card;
\* the click itself only opens the file dialog
UploadClick ==
  \/ /\ activeChatId = NoChat
     /\ nextId <= MaxIds
     /\ handleNewChat
     /\ UNCHANGED <<isLoading, uploadStatus, docGenMode, sends, uploads>>
  \/ /\ activeChatId # NoChat
     /\ UNCHANGED vars

\* lines 251-268, the synchronous part of handleFileChange(e) with one file;
\* at most maxUploads invocations are followed
handleFileChange(f, maxUploads) ==
  \/ \* lines 255-261
     /\ activeChatId = NoChat
     /\ Len(uploads) < maxUploads
     /\ nextId <= MaxIds
     /\ handleNewChat
     /\ uploads' = Append(uploads, UploadRec("retry", activeChatId, f, 1))
     /\ UNCHANGED <<isLoading, uploadStatus, docGenMode, sends>>
  \/ \* lines 263-268
     /\ activeChatId # NoChat
     /\ Len(uploads) < maxUploads
     /\ uploadStatus' = "uploading"
     /\ isLoading' = TRUE
     /\ uploads' = Append(uploads, UploadRec("await", activeChatId, f, 0))
     /\ UNCHANGED <<chats, activeChatId, input, docGenMode, lsChats,
                    lsActive, sends, nextId>>

\* line 435: onChange={handleFileChange}
FileChange(f) == handleFileChange(f, MaxUploads)

\* line 259: the timer runs handleFileChange of the render that scheduled it
RetryUpload(j) ==
  /\ uploads[j].pc = "retry"
  /\ uploads[j].chatId = NoChat
  /\ nextId <= MaxIds
  /\ handleNewChat
  /\ uploads' = [uploads EXCEPT ![j].created = @ + 1]
  /\ UNCHANGED <<isLoading, uploadStatus, docGenMode, sends>>

\* the document name cut at the first "." of the file name
chatsAfterUploadFirstDot(cs, u) ==
  LET d == CHOOSE k \in 1..(Len(u.file) + 1) :
             /\ k = Len(u.file) + 1 \/ u.file[k] = "."
             /\ \A h \in 1..(k - 1) : u.file[h] # "."
  IN updateChatTitle(cs, u.chatId, SubSeq(u.file, 1, d - 1))

\* lines 274-275: the chats after uploadDocument resolved
chatsAfterUpload(cs, u) ==
  updateChatTitle(cs, u.chatId, StripExtension(u.file))

\* lines 269-283 and 289: uploadDocument resolved
UploadOk(j) ==
  /\ uploads[j].pc = "await"
  /\ uploadStatus' = "success"
  /\ chats' = chatsAfterUpload(chats, uploads[j])
  /\ isLoading' = FALSE
  /\ uploads' = [uploads EXCEPT ![j] = EndUpload("timer")]
  /\ UNCHANGED <<activeChatId, input, docGenMode, sends, nextId>>
  /\ Persist

\* the catch block appending the error text twice
chatsAfterUploadErrorTwice(cs, u) ==
  appendMessage(appendMessage(cs, u.chatId, "assistant", UploadErrorText),
                u.chatId, "assistant", UploadErrorText)

\* line 287: the chats after uploadDocument rejected
chatsAfterUploadError(cs, u) ==
  appendMessage(cs, u.chatId, "assistant", UploadErrorText)

\* lines 284-289: uploadDocument rejected
UploadFail(j) ==
  /\ uploads[j].pc = "await"
  /\ uploadStatus' = "error"
  /\ chats' = chatsAfterUploadError(chats, uploads[j])
  /\ isLoading' = FALSE
  /\ uploads' = [uploads EXCEPT ![j] = EndUpload("done")]
  /\ UNCHANGED <<activeChatId, input, docGenMode, sends, nextId>>
  /\ Persist

\* lines 281-283: the 5 s timer
UploadTimer(j) ==
  /\ uploads[j].pc = "timer"
  /\ uploadStatus' = "idle"
  /\ uploads' = [uploads EXCEPT ![j] = EndUpload("done")]
  /\ UNCHANGED <<chats, activeChatId, input, isLoading, docGenMode, lsChats,
                 lsActive, sends, nextId>>

\* ------------------------------------------------------- process restart
\* lines 58-79 and 124-129: the page is loaded again over the localStorage the
\* last session left; the timers and pending calls of the old page are dropped
Restart ==
  /\ chats' = InitialChats(lsChats)
  /\ activeChatId' = InitialActiveChatId(lsActive)
  /\ input' = EmptyText
  /\ isLoading' = FALSE
  /\ uploadStatus' = "idle"
  /\ docGenMode' = FALSE
  /\ lsChats' = JSONstringify(chats')
  /\ lsActive' = IF activeChatId' # NoChat THEN activeChatId' ELSE lsActive
  /\ sends' = [i \in DOMAIN sends |-> EndSend("gone")]
  /\ uploads' = [j \in DOMAIN uploads |-> EndUpload("gone")]
  /\ UNCHANGED nextId

\* ------------------------------------------------------------------ Next
Next ==
  \/ \E t \in Texts : Type(t)
  \/ ToggleDocGen
  \/ NewChat
  \/ \E id \in ChatIds(chats) : SelectChat(id)
  \/ \E id \in ChatIds(chats) : DeleteChat(id)
  \/ HandleSend
  \/ \E i \in DOMAIN sends : RetrySend(i)
  \/ \E i \in DOMAIN sends : \E r \in Responses : SendOk(i, r)
  \/ \E i \in DOMAIN sends : SendFail(i)
  \/ \E i \in DOMAIN sends : \E ok \in BOOLEAN : TtsSettled(i, ok)
  \/ UploadClick
  \/ \E f \in FileNames : FileChange(f)
  \/ \E j \in DOMAIN uploads : RetryUpload(j)
  \/ \E j \in DOMAIN uploads : UploadOk(j)
  \/ \E j \in DOMAIN uploads : UploadFail(j)
  \/ \E j \in DOMAIN uploads : UploadTimer(j)
  \/ Restart

Spec == Init /\ [][Next]_vars

\* The session store driven by the sidebar, the input box and page reloads
\* alone: no send and no upload is started.
StoreNewChat ==
  /\ nextId <= MaxStoreIds
  /\ handleNewChat
  /\ UNCHANGED <<isLoading, uploadStatus, docGenMode, sends, uploads>>

NextStore ==
  \/ \E t \in Texts : Type(t)
  \/ StoreNewChat
  \/ \E id \in ChatIds(chats) : SelectChat(id)
  \/ \E id \in ChatIds(chats) : DeleteChat(id)
  \/ Restart

SpecStore == Init /\ [][NextStore]_vars

\* The message dispatcher over the session store within one page session: no
\* upload is started and the page is not reloaded.
NextSend ==
  \/ \E t \in Texts : Type(t)
  \/ NewChat
  \/ \E id \in ChatIds(chats) : SelectChat(id)
  \/ \E id \in ChatIds(chats) : DeleteChat(id)
  \/ HandleSend
  \/ \E i \in DOMAIN sends : RetrySend(i)
  \/ \E i \in DOMAIN sends : \E r \in Responses : SendOk(i, r)
  \/ \E i \in DOMAIN sends : SendFail(i)
  \/ \E i \in DOMAIN sends : \E ok \in BOOLEAN : TtsSettled(i, ok)

SpecSend == Init /\ [][NextSend]_vars

\* The message dispatcher with its mode switch, over threads that are created
\* but neither selected nor deleted.
NextDispatch ==
  \/ \E t \in Texts : Type(t)
  \/ ToggleDocGen
  \/ NewChat
  \/ HandleSend
  \/ \E i \in DOMAIN sends : RetrySend(i)
  \/ \E i \in DOMAIN sends : \E r \in Responses : SendOk(i, r)
  \/ \E i \in DOMAIN sends : SendFail(i)
  \/ \E i \in DOMAIN sends : \E ok \in BOOLEAN : TtsSettled(i, ok)

SpecDispatch == Init /\ [][NextDispatch]_vars

\* The upload coordinator over the session store within one page session: no
\* send is started and the page is not reloaded.
NextUpload ==
  \/ NewChat
  \/ \E id \in ChatIds(chats) : SelectChat(id)
  \/ \E id \in ChatIds(chats) : DeleteChat(id)
  \/ UploadClick
  \/ \E f \in DocumentNames : handleFileChange(f, MaxUploadsAlone)
  \/ \E j \in DOMAIN uploads : RetryUpload(j)
  \/ \E j \in DOMAIN uploads : UploadOk(j)
  \/ \E j \in DOMAIN uploads : UploadFail(j)
  \/ \E j \in DOMAIN uploads : UploadTimer(j)

SpecUpload == Init /\ [][NextUpload]_vars

\* The session store with selectThread called as its contract allows: with any
\* id, whether or not a thread of chats has it (the Sidebar that calls
\* onSelectChat is not part of the source at hand; line 240 takes any id).
NextSelect ==
  \/ \E t \in Texts : Type(t)
  \/ StoreNewChat
  \/ \E id \in 1..MaxStoreIds : SelectChat(id)
  \/ \E id \in ChatIds(chats) : DeleteChat(id)

SpecSelect == Init /\ [][NextSelect]_vars

\* ------------------------------------------------- generateChatTitle alone
\* The texts handed to generateChatTitle: up to MaxTitleWords words of 1, 8 or
\* 9 characters, separated by one or two blanks, with or without a blank in
\* front and behind.  Four words make joins of 7 to 39 characters, 30 and 31
\* among them.
WordShort == <<"a">>
WordEight == [k \in 1..8 |-> "b"]
WordNine == [k \in 1..9 |-> "c"]
TitleWords == {WordShort, WordEight, WordNine}
TitleWordLists == UNION {[1..n -> TitleWords] : n \in 0..MaxTitleWords}
Gaps == {<<" ">>, <<" ", " ">>}
Margins == {<<>>, <<" ">>}

RECURSIVE JoinWith(_, _)
JoinWith(ws, gap) ==
  IF ws = <<>> THEN <<>>
  ELSE IF Len(ws) = 1 THEN ws[1]
       ELSE ws[1] \o gap \o JoinWith(Tail(ws), gap)

\* each text with the words, the gap and the margins it is made of
TitleCases ==
  {[text |-> lead \o JoinWith(ws, gap) \o trail, words |-> ws, gap |-> gap] :
     lead \in Margins, ws \in TitleWordLists, gap \in Gaps, trail \in Margins}

TitleInputs == {c.text : c \in TitleCases}

\* A thread with the title 'New Chat' is active and the text is in the input.
InitTitle ==
  /\ chats = prependChat(<<>>, 1)
  /\ activeChatId = 1
  /\ input \in TitleInputs
  /\ isLoading = FALSE
  /\ uploadStatus = "idle"
  /\ docGenMode = FALSE
  /\ lsChats = JSONstringify(chats)
  /\ lsActive = 1
  /\ sends = <<>>
  /\ uploads = <<>>
  /\ nextId = 2

\* lines 197-198: updateChatTitle(activeChatId, generateChatTitle(pendingInput))
TitleFromInput ==
  /\ chats' = updateChatTitle(chats, activeChatId, generateChatTitle(input))
  /\ UNCHANGED <<activeChatId, input, isLoading, uploadStatus, docGenMode,
                 sends, uploads, nextId>>
  /\ Persist

NextTitle == TitleFromInput

SpecTitle == InitTitle /\ [][NextTitle]_vars

\* ================================================================ claims
ActiveValid(cs, active) == active = NoChat \/ active \in ChatIds(cs)

\* cs with the threads of id left out, the others in their order
RECURSIVE Without(_, _)
Without(cs, id) ==
  IF cs = <<>> THEN <<>>
  ELSE IF Head(cs).id = id THEN Without(Tail(cs), id)
       ELSE <<Head(cs)>> \o Without(Tail(cs), id)

\* C1: in every state reached by createThread and deleteThread calls from a
\* rehydrated state, activeChatId is none or the id of a thread in chats.
C1_ActiveReferencesThread == ActiveValid(chats, activeChatId)

\* C4: once the persistence effects have run, the persisted chats equal the
\* chats in memory and the persisted activeChatId reads back as the
\* activeChatId in memory, none included.
C4_PersistedEqualsMemory ==
  /\ lsChats.present
  /\ JSONparse(lsChats) = chats
  /\ InitialActiveChatId(lsActive) = activeChatId

\* C5: whatever was done before, the state a restart rehydrates from the
\* persisted keys has an activeChatId that is none or the id of a rehydrated
\* thread.
C5_RehydratedActiveValid ==
  ActiveValid(InitialChats(lsChats), InitialActiveChatId(lsActive))

\* C7: a step that takes the thread id out of chats (deleteThread(id)) leaves
\* exactly the other threads, unchanged and in order; activeChatId is kept if
\* id was not active, becomes the first remaining thread if id was active and
\* threads remain, and none if id was active and no thread remains.
C7_DeleteThread ==
  [][\A id \in ChatIds(chats) :
       id \notin ChatIds(chats') =>
         /\ chats' = Without(chats, id)
         /\ activeChatId' =
              IF activeChatId # id THEN activeChatId
              ELSE IF Without(chats, id) = <<>> THEN NoChat
                   ELSE Without(chats, id)[1].id]_vars

\* The only thread, which was active, has been deleted: no thread is left and
\* none is active.
C7_Witness ==
  /\ nextId > 1
  /\ chats = <<>>
  /\ activeChatId = NoChat

\* C2: a send with non-blank text and no active thread, its deferred retry
\* included, creates exactly one thread (and appends one user and then one
\* assistant message to it): no handleSend invocation creates a second thread.
C2_SendCreatesOneThread ==
  \A i \in DOMAIN sends : sends[i].created <= 1

\* C3: every handleSend invocation reaches a terminal outcome; when started
\* with no active thread it stops rescheduling itself.  Every retry runs the
\* same closure, so it terminates only if a retry that runs leaves the
\* "timer pending" position.
C3_RetryStopsRescheduling ==
  [][\A i \in DOMAIN sends :
       (sends[i].pc = "retry" /\ sends'[i] # sends[i]) =>
         sends'[i].pc # "retry"]_vars

SendFailStep(i) == sends[i].pc = "await" /\ sends'[i].pc = "failed"
SendOkStep(i) == sends[i].pc = "await" /\ sends'[i].pc = "tts"
SendStartStep ==
  Len(sends') = Len(sends) + 1 /\ sends'[Len(sends')].pc = "await"
UploadFailStep(j) == uploads[j].pc = "await" /\ uploads'[j].pc = "done"

SameThreads ==
  /\ Len(chats') = Len(chats)
  /\ \A k \in DOMAIN chats : chats'[k].id = chats[k].id

\* the step adds exactly msg at the end of thread id and no other message
AddsOneMessage(id, msg) ==
  /\ SameThreads
  /\ \A k \in DOMAIN chats :
       chats'[k].messages =
         IF chats[k].id = id THEN Append(chats[k].messages, msg)
         ELSE chats[k].messages

AddsNoMessage ==
  /\ SameThreads
  /\ \A k \in DOMAIN chats : chats'[k].messages = chats[k].messages

SendErrorMessage == [role |-> "assistant", content |-> SendErrorText]

\* C6 as claimed: a send whose outbound call fails appends exactly one
\* assistant message, the fixed error text, to some thread, and isLoading is
\* false afterwards.
C6_FailedSendAppendsError ==
  [][\A i \in DOMAIN sends :
       SendFailStep(i) =>
         /\ \E id \in ChatIds(chats) : AddsOneMessage(id, SendErrorMessage)
         /\ ~isLoading']_vars

\* C6 as amended: a send whose outbound call fails appends exactly one
\* assistant message, the fixed error text, to the thread that was active when
\* the send was started if that thread is still in chats, and appends nothing
\* if it is not; titles and activeChatId are unchanged, the handler returns
\* normally and isLoading is false afterwards.
C6_FailedSendAppendsErrorIfThreadExists ==
  [][\A i \in DOMAIN sends :
       SendFailStep(i) =>
         /\ IF sends[i].chatId \in ChatIds(chats)
            THEN AddsOneMessage(sends[i].chatId, SendErrorMessage)
            ELSE AddsNoMessage
         /\ \A k \in DOMAIN chats : chats'[k].title = chats[k].title
         /\ activeChatId' = activeChatId
         /\ ~isLoading']_vars

\* A send has failed and the error text is the last message of a thread that
\* begins with the user's message.
C6_Witness ==
  /\ \E i \in DOMAIN sends : sends[i].pc = "failed"
  /\ \E k \in DOMAIN chats :
       /\ Len(chats[k].messages) = 2
       /\ chats[k].messages[1].role = "user"
       /\ chats[k].messages[2] = SendErrorMessage

\* C8: every message append that takes effect adds the message to the thread
\* that is active at the moment of the append.
C8_AppendsOnlyToActiveThread ==
  [][\A k \in DOMAIN chats : \A h \in DOMAIN chats' :
       (chats'[h].id = chats[k].id /\ chats'[h].messages # chats[k].messages)
         => chats[k].id = activeChatId]_vars

\* C9: every invocation of appendMessage (by the start of a send, by the
\* continuation of a send after its call resolved or rejected, by a failed
\* upload) is a no-op when no thread is active, and otherwise adds exactly one
\* message at the end of the active thread and changes no other thread.
C9_AppendMessage ==
  [][((\E i \in DOMAIN sends : SendFailStep(i) \/ SendOkStep(i))
        \/ SendStartStep
        \/ (\E j \in DOMAIN uploads : UploadFailStep(j))) =>
       (IF activeChatId = NoChat THEN AddsNoMessage
        ELSE /\ SameThreads
             /\ \A k \in DOMAIN chats :
                  IF chats[k].id = activeChatId
                  THEN /\ Len(chats'[k].messages) = Len(chats[k].messages) + 1
                       /\ SubSeq(chats'[k].messages, 1, Len(chats[k].messages))
                            = chats[k].messages
                  ELSE chats'[k].messages = chats[k].messages)]_vars

\* C10: the success path of a send changes no title that differs from
\* "New Chat" when the response is processed.
C10_SendKeepsDerivedTitle ==
  [][\A i \in DOMAIN sends :
       SendOkStep(i) =>
         /\ SameThreads
         /\ \A k \in DOMAIN chats :
              chats[k].title # NewChatTitle => chats'[k].title = chats[k].title]_vars

IsPrefix(a, b) == Len(a) <= Len(b) /\ SubSeq(b, 1, Len(a)) = a

\* C11: the messages of every thread are append-only: whatever step is taken
\* (sends and uploads interleaved, reloads included), a thread that is in chats
\* before and after it has its earlier messages as a prefix of its later ones.
C11_MessagesAppendOnly ==
  [][\A k \in DOMAIN chats : \A h \in DOMAIN chats' :
       chats'[h].id = chats[k].id =>
         IsPrefix(chats[k].messages, chats'[h].messages)]_vars

\* One thread holds the user message of a send, then the error message of a
\* failed upload, then the response of the send.
C11_Witness ==
  \E k \in DOMAIN chats :
    /\ Len(chats[k].messages) >= 3
    /\ chats[k].messages[1].role = "user"
    /\ chats[k].messages[2] = [role |-> "assistant", content |-> UploadErrorText]
    /\ chats[k].messages[3].role = "assistant"
    /\ chats[k].messages[3].content \in Responses

SendEndStep(i) == SendOkStep(i) \/ SendFailStep(i)

\* C12: within one send the user message is appended before the assistant
\* message: the step that starts a send puts the user message at the end of
\* the active thread, and the step that handles the outcome of its call
\* (response or error) finds that user message in the thread of the send and
\* puts exactly one assistant message behind every message of that thread,
\* whatever other sends did to the thread in between.
C12_UserBeforeAssistant ==
  [][/\ SendStartStep =>
          \A k \in DOMAIN chats :
            chats[k].id = activeChatId =>
              /\ k \in DOMAIN chats'
              /\ chats'[k].messages =
                   Append(chats[k].messages, [role |-> "user", content |-> input])
     /\ \A i \in DOMAIN sends :
          SendEndStep(i) =>
            \A k \in DOMAIN chats :
              chats[k].id = sends[i].chatId =>
                /\ \E p \in 1..Len(chats[k].messages) :
                     chats[k].messages[p] =
                       [role |-> "user", content |-> sends[i].text]
                /\ k \in DOMAIN chats'
                /\ Len(chats'[k].messages) = Len(chats[k].messages) + 1
                /\ IsPrefix(chats[k].messages, chats'[k].messages)
                /\ chats'[k].messages[Len(chats'[k].messages)].role = "assistant"]_vars

\* Two sends were in flight at once in one thread and both have been answered:
\* the thread holds the two user messages and then the two assistant messages.
C12_Witness ==
  /\ Len(sends) = 2
  /\ \A i \in DOMAIN sends : sends[i].pc \in {"tts", "appended", "failed"}
  /\ \E k \in DOMAIN chats :
       /\ Len(chats[k].messages) = 4
       /\ chats[k].messages[1].role = "user"
       /\ chats[k].messages[2].role = "user"
       /\ chats[k].messages[3].role = "assistant"
       /\ chats[k].messages[4].role = "assistant"

\* C13: isLoading is true only while an outbound call is awaited: in every
\* state where isLoading is true, some send is awaiting its chat or
\* document-generation response or some upload is awaiting its upload response.
C13_LoadingOnlyWhileAwaiting ==
  isLoading =>
    \/ \E i \in DOMAIN sends : sends[i].pc = "await"
    \/ \E j \in DOMAIN uploads : uploads[j].pc = "await"

\* C14: selectThread(id) sets activeChatId to id only if a thread of chats has
\* that id, and is a no-op otherwise: a step that moves activeChatId and leaves
\* chats alone (no thread created or deleted) moves it to a thread of chats.
C14_SelectOnlyExistingThread ==
  [][(chats' = chats /\ activeChatId' # activeChatId) =>
       activeChatId' \in ChatIds(chats)]_vars

\* C15: every handleNewChat (a step that draws an id) yields chats = the new
\* thread followed by the previous chats unchanged and in order; the new thread
\* has an id no thread of chats has, the title "New Chat" and no messages; the
\* step sets activeChatId to the new id and clears the input.  Hence chats is
\* always ordered most-recently-created-first with unique ids.
C15_CreateThread ==
  [][/\ nextId' # nextId =>
          /\ chats' = <<[id |-> nextId, title |-> NewChatTitle,
                         messages |-> <<>>]>> \o chats
          /\ \A k \in DOMAIN chats : chats[k].id # nextId
          /\ activeChatId' = nextId
          /\ input' = EmptyText
     /\ \A h \in DOMAIN chats' : \A k \in DOMAIN chats' :
          h < k => chats'[h].id > chats'[k].id]_vars

\* A second thread has been created in front of a thread that holds messages
\* (with text typed in the input before, which the creation cleared).
C15_Witness ==
  /\ Len(chats) = 2
  /\ chats[1] = [id |-> 2, title |-> NewChatTitle, messages |-> <<>>]
  /\ chats[2].id = 1
  /\ chats[2].messages # <<>>
  /\ activeChatId = 2
  /\ input = EmptyText

UploadOkStep(j) == uploads[j].pc = "await" /\ uploads'[j].pc = "timer"

\* the display name of each offered file without its trailing extension
DocNameOf(f) ==
  CASE f = <<"c", ".", "p">> -> <<"c">>
    [] f = <<"a", ".", "b", ".", "p">> -> <<"a", ".", "b">>
    [] f = <<"n">> -> <<"n">>

UploadErrorMessage == [role |-> "assistant", content |-> UploadErrorText]

\* C17 as claimed: when the upload call fails, uploadStatus becomes "error",
\* exactly one assistant message with the fixed upload-error text is appended
\* to a thread, no title changes and isLoading is false afterwards.
C17_FailedUploadAppendsError ==
  [][\A j \in DOMAIN uploads :
       UploadFailStep(j) =>
         /\ uploadStatus' = "error"
         /\ \E id \in ChatIds(chats) : AddsOneMessage(id, UploadErrorMessage)
         /\ \A k \in DOMAIN chats : chats'[k].title = chats[k].title
         /\ ~isLoading']_vars

\* C17 as amended: when the upload call fails, uploadStatus becomes "error",
\* exactly one assistant message with the fixed upload-error text is appended
\* to the thread the upload was started in if that thread is still in chats,
\* and nothing is appended if it is not; no title changes and isLoading is
\* false afterwards.
C17_FailedUploadAppendsErrorIfThreadExists ==
  [][\A j \in DOMAIN uploads :
       UploadFailStep(j) =>
         /\ uploadStatus' = "error"
         /\ IF uploads[j].chatId \in ChatIds(chats)
            THEN AddsOneMessage(uploads[j].chatId, UploadErrorMessage)
            ELSE AddsNoMessage
         /\ \A k \in DOMAIN chats : chats'[k].title = chats[k].title
         /\ ~isLoading']_vars

\* The only upload has failed: its thread holds the upload-error text as its
\* only message under its first title, the status is "error" and nothing is
\* loading.
C17_Witness ==
  /\ Len(uploads) = 1
  /\ uploads[1].pc = "done"
  /\ uploadStatus = "error"
  /\ ~isLoading
  /\ \E k \in DOMAIN chats :
       /\ chats[k].messages = <<UploadErrorMessage>>
       /\ chats[k].title = NewChatTitle

\* the first 4 words joined by single blanks, cut to 30 characters and "..."
\* if longer
FirstFourJoined(ws) ==
  LET join == JoinWith(SubSeq(ws, 1, 4), <<" ">>)
  IN IF Len(join) > 30 THEN SubSeq(join, 1, 30) \o <<".", ".", ".">> ELSE join

\* C18 as claimed: generateChatTitle returns a text of at most 3 words
\* unchanged, and for a text of 4 or more words the first 4 words joined by
\* single blanks, cut to its first 30 characters followed by "..." if the join
\* is longer than 30 characters.
C18_TitleFromText ==
  [][\A c \in TitleCases :
       c.text = input =>
         chats'[1].title =
           IF Len(c.words) <= 3 THEN c.text ELSE FirstFourJoined(c.words)]_vars

\* C18 as amended: generateChatTitle returns "New Chat" for the empty text; for
\* any other text of at most 3 words the text without its leading and trailing
\* white space (the white space between the words kept); and for a text of 4
\* or more words the first 4 words joined by single blanks, cut to its first
\* 30 characters followed by "..." if the join is longer than 30 characters.
C18_TitleFromTrimmedText ==
  [][\A c \in TitleCases :
       c.text = input =>
         chats'[1].title =
           IF c.text = <<>> THEN <<"N", "e", "w", " ", "C", "h", "a", "t">>
           ELSE IF Len(c.words) <= 3 THEN JoinWith(c.words, c.gap)
                ELSE FirstFourJoined(c.words)]_vars

\* A title of 30 characters and "..." has been derived from a text of five
\* words with blanks around and between them.
C18_Witness ==
  /\ Len(chats[1].title) = 33
  /\ SubSeq(chats[1].title, 31, 33) = <<".", ".", ".">>
  /\ Len(input) > 40
  /\ input[1] = " "
  /\ input[Len(input)] = " "

TtsStep(i) == sends[i].pc = "tts" /\ sends'[i].pc = "appended"

\* C19: a failure of the text-to-speech call after a successful response is
\* swallowed: the step that handles the outcome of textToSpeech, rejection
\* included, changes no thread (no error message is appended behind the
\* response, the title set when the response was processed stays) and clears
\* isLoading.
C19_TtsFailureSwallowed ==
  [][\A i \in DOMAIN sends :
       TtsStep(i) =>
         /\ chats' = chats
         /\ activeChatId' = activeChatId
         /\ ~isLoading']_vars

\* The only send has returned after its text-to-speech call settled: its
\* thread holds exactly the user message and the response, under the title
\* derived from the message, and nothing is loading.
C19_Witness ==
  /\ Len(sends) = 1
  /\ sends[1].pc = "appended"
  /\ ~isLoading
  /\ \E k \in DOMAIN chats :
       /\ chats[k].title = <<"h", "i">>
       /\ chats[k].messages =
            <<[role |-> "user", content |-> <<"h", "i">>],
              [role |-> "assistant", content |-> <<"o", "k">>]>>

\* C20: each send that proceeds past the active-thread precondition issues
\* exactly one outbound call, to the document-generation endpoint when
\* docGenMode is on and to the chat endpoint otherwise, and never reissues it:
\* a send awaits a call only from the step that started it, the call is the
\* one the mode of that step chooses, and no send that has handled a response
\* or a failure awaits a call again.
C20_OneOutboundCall ==
  [][/\ SendStartStep =>
          sends'[Len(sends')].endpoint =
            IF docGenMode THEN "generate-document" ELSE "ask"
     /\ \A i \in DOMAIN sends' :
          sends'[i].pc = "await" =>
            \/ i \notin DOMAIN sends
            \/ sends'[i] = sends[i]]_vars

\* One send has failed and has not been reissued while another awaits the
\* document-generation call.
C20_Witness ==
  \E i \in DOMAIN sends : \E j \in DOMAIN sends :
    /\ sends[i].pc = "failed"
    /\ sends[j].pc = "await"
    /\ sends[j].endpoint = "generate-document"

\* C21: whenever the outbound call of at least one send or upload is still in
\* flight, isLoading is true; the completion of one of two overlapping calls
\* does not clear the flag while the other call is awaited.
C21_LoadingWhileAnyCallInFlight ==
  ((\E i \in DOMAIN sends : sends[i].pc = "await")
     \/ (\E j \in DOMAIN uploads : uploads[j].pc = "await"))
    => isLoading

\* C22: once a thread has been deleted, no later step brings a thread with its
\* id back into chats: every thread of chats after a step was in chats before
\* it or is the thread handleNewChat creates in that step under an id never
\* drawn before, so the continuations of sends and uploads that were in flight
\* when their thread was deleted (assistant append, error append, title
\* update) add no thread, and neither does a reload.
C22_DeletedThreadStaysDeleted ==
  [][/\ \A id \in ChatIds(chats') :
          \/ id \in ChatIds(chats)
          \/ id = nextId /\ nextId' = nextId + 1
     /\ \A id \in ChatIds(chats') : id < nextId']_vars

\* The only thread ever created has been deleted with a send and an upload in
\* flight in it: the send has handled its failure, the upload is still
\* awaited, and chats is empty.
C22_Witness ==
  /\ nextId = 2
  /\ chats = <<>>
  /\ Len(sends) >= 1
  /\ sends[1].pc = "failed"
  /\ Len(uploads) = 1
  /\ uploads[1].pc = "await"
  /\ uploads[1].chatId = 1

\* C23: in every state where an upload call is in flight, uploadStatus is
\* "uploading": neither the 5 s timer that an earlier successful upload
\* scheduled nor anything else changes the status while an upload is awaited.
C23_UploadingWhileUploadInFlight ==
  (\E j \in DOMAIN uploads : uploads[j].pc = "await")
    => uploadStatus = "uploading"

\* The part of C23 about the timer alone: a 5 s timer that fires while a later
\* upload is awaited leaves uploadStatus at "uploading".
TimerKeepsUploading ==
  [][\A j \in DOMAIN uploads :
       (uploads[j].pc = "timer" /\ uploads'[j].pc = "done"
          /\ uploadStatus = "uploading"
          /\ \E h \in DOMAIN uploads : uploads[h].pc = "await")
         => uploadStatus' = "uploading"]_vars

====
